---------------------------- MODULE Spec2Model ----------------------------
(***************************************************************************)
(* NES outage proximity service: src/nes_service.py (geocode, fetch,       *)
(* haversine distance, nearest-N ranking) and src/server.py (the Flask     *)
(* routes /health, /events, /nearest, /geocode).                           *)
(*                                                                         *)
(* The program keeps no state between calls.  A state of the model is the  *)
(* last call made (call), what it returned or raised (outcome), the        *)
(* outbound HTTP requests it issued with the upstream's answers            *)
(* (outbound), and the one piece of memory that outlives a call: the list  *)
(* of OutageEvent objects a library caller holds and passes to             *)
(* find_nearest_events (caller_events).                                    *)
(*                                                                         *)
(* Python values are tagged records, [t |-> "None"], [t |-> "num", v |-> n]*)
(* [t |-> "str", ...], [t |-> "dict", ...], [t |-> "list", ...], so that   *)
(* an operation applied to a value of the wrong type raises as it does in  *)
(* Python.  Floats are fixed-point integers (see the arithmetic section).  *)
(***************************************************************************)
EXTENDS Integers, Sequences, FiniteSets, TLC

VARIABLES call, outcome, outbound, caller_events

vars == <<call, outcome, outbound, caller_events>>

---------------------------------------------------------------------------
(* Bounds of the model *)

\* Longest list of OutageEvent objects a library caller builds.
MaxEvents == 3
\* Longest list of records in an outage-feed answer.
MaxFeed == 2
\* Coordinates given to haversine_miles directly: multiples of 10 degrees,
\* -MaxGridK..MaxGridK.
MaxGridK == 2

---------------------------------------------------------------------------
(* Python values and call outcomes *)

None == [t |-> "None"]
Num(n) == [t |-> "num", v |-> n]
Str(s) == [t |-> "str", str |-> s]
List(s) == [t |-> "list", items |-> s]
\* A dict with the keys ks and the values f[k]: its <<key, value>> pairs.
Dict(ks, f) == [t |-> "dict", kv |-> {<<k, f[k]>> : k \in ks}]
EmptyDict == Dict({}, <<>>)
keys(obj) == {p[1] : p \in obj.kv}
\* obj[key], for a key the dict has.
at(obj, key) == (CHOOSE p \in obj.kv : p[1] = key)[2]

Return(v) == [kind |-> "return", value |-> v]
Raise(e) == [kind |-> "raise", exc |-> e]

IsNum(x) == x.t = "num"

\* dict.get(key, default); AttributeError on anything that is not a dict
\* (None, list, str and numbers have no .get).
get(obj, key, default) ==
    IF obj.t # "dict" THEN Raise("AttributeError")
    ELSE IF key \in keys(obj) THEN Return(at(obj, key))
    ELSE Return(default)

---------------------------------------------------------------------------
(* Fixed-point float arithmetic.                                           *)
(* A real x in [-1, 1] is the integer x * Scale; an angle is an integer    *)
(* number of 1e-5 radians; a distance is an integer number of 1e-5 miles.  *)
(* sin, cos and atan2 are known at multiples of 5 degrees, which is what   *)
(* coordinates at multiples of 10 degrees need (haversine halves the       *)
(* differences).                                                           *)

Scale == 10000
\* math.radians: pi/180 = 0.0174533, in units of 1e-5 rad.
RadPerDeg == 1745
\* One step of the trigonometric tables: 5 degrees, radians(10) / 2.
TableStep == (10 * RadPerDeg) \div 2

\* sin(k * 5 degrees) * Scale, k = 0..18.
SinTable == << 0, 872, 1736, 2588, 3420, 4226, 5000, 5736, 6428, 7071,
               7660, 8192, 8660, 9063, 9397, 9659, 9848, 9962, 10000 >>

\* sin at k table steps, by the symmetries of the sine (period 72 steps).
sinStep(k) ==
    LET m == k % 72
    IN  IF m <= 18 THEN SinTable[m + 1]
        ELSE IF m <= 36 THEN SinTable[(36 - m) + 1]
        ELSE IF m <= 54 THEN -SinTable[(m - 36) + 1]
        ELSE -SinTable[(72 - m) + 1]

radians(deg) == deg * RadPerDeg
sin(x) == sinStep(x \div TableStep)
cos(x) == sinStep((x \div TableStep) + 18)

\* x * y of two fixed-point reals.
mul(x, y) == (x * y) \div Scale

RECURSIVE isqrtBetween(_, _, _)
\* The largest r in lo..hi with r * r <= n (lo * lo <= n assumed).
isqrtBetween(n, lo, hi) ==
    IF lo >= hi THEN lo
    ELSE LET mid == (lo + hi + 1) \div 2
         IN  IF mid * mid <= n THEN isqrtBetween(n, mid, hi)
             ELSE isqrtBetween(n, lo, mid - 1)

\* math.sqrt of a fixed-point real in [0, 1].
sqrt(x) == isqrtBetween(x * Scale, 0, Scale)

Abs(n) == IF n < 0 THEN -n ELSE n

\* The sign of (k table steps) - (the angle of the point (x, y)).
atan2_off(k, y, x) == sinStep(k) * x - sinStep(k + 18) * y

\* Of the table angle below the true one and the next, the nearer (the
\* smaller on a tie).
atan2_round(below, y, x) ==
    IF below < 18 /\ atan2_off(below + 1, y, x) < -atan2_off(below, y, x)
    THEN below + 1 ELSE below

\* math.atan2(y, x) for y, x >= 0 not both 0: the table angle in [0, pi/2]
\* nearest to the true one.
atan2(y, x) ==
    atan2_round(Cardinality({k \in 1..18 : atan2_off(k, y, x) <= 0}), y, x) * TableStep

\* x ** 2
pow2(x) == mul(x, x)

---------------------------------------------------------------------------
(* nes_service.haversine_miles *)

\* Earth's radius in miles.
R == 3959

\* Line 95: c from a.
central_angle(a) == 2 * atan2(sqrt(a), sqrt(Scale - a))

\* lat1 for lat2 in the cosine product: the asymmetric slip.
haversine_miles_lat1_twice(lat1, lng1, lat2, lng2) ==
    IF ~(IsNum(lat1) /\ IsNum(lng1) /\ IsNum(lat2) /\ IsNum(lng2))
    THEN Raise("TypeError")
    ELSE
    LET lat1_rad == radians(lat1.v)
        delta_lat == radians(lat2.v - lat1.v)
        delta_lng == radians(lng2.v - lng1.v)
        a == pow2(sin(delta_lat \div 2))
             + mul(mul(cos(lat1_rad), cos(lat1_rad)), pow2(sin(delta_lng \div 2)))
    IN  Return(Num(R * central_angle(a)))

\* The arguments are Python values: math.radians(None) and lat2 - lat1 with
\* a None or a str raise TypeError.
haversine_miles(lat1, lng1, lat2, lng2) ==
    IF ~(IsNum(lat1) /\ IsNum(lng1) /\ IsNum(lat2) /\ IsNum(lng2))
    THEN Raise("TypeError")
    ELSE
    LET lat1_rad == radians(lat1.v)
        lat2_rad == radians(lat2.v)
        delta_lat == radians(lat2.v - lat1.v)
        delta_lng == radians(lng2.v - lng1.v)
        a == pow2(sin(delta_lat \div 2))
             + mul(mul(cos(lat1_rad), cos(lat2_rad)), pow2(sin(delta_lng \div 2)))
    IN  Return(Num(R * central_angle(a)))

---------------------------------------------------------------------------
(* Python built-ins the service relies on *)

\* bool(x): None, 0, "", [], {} are falsy.
Truthy(x) ==
    CASE x.t = "None" -> FALSE
      [] x.t = "num"  -> x.v # 0
      [] x.t = "str"  -> x.str # ""
      [] x.t = "list" -> Len(x.items) > 0
      [] x.t = "dict" -> x.kv # {}
      [] OTHER        -> TRUE

\* x[0]
index0(x) ==
    CASE x.t = "list" -> IF Len(x.items) > 0 THEN Return(x.items[1])
                         ELSE Raise("IndexError")
      [] x.t = "dict" -> Raise("KeyError")            \* JSON keys are strings
      [] x.t = "str"  -> IF x.str # "" THEN Return(Str("c")) ELSE Raise("IndexError")
      [] OTHER        -> Raise("TypeError")

RECURSIVE keysInSomeOrder(_)
keysInSomeOrder(ks) ==
    IF ks = {} THEN <<>>
    ELSE LET k == CHOOSE k \in ks : TRUE
         IN  <<Str(k)>> \o keysInSomeOrder(ks \ {k})

\* for item in x: the items, or TypeError when x is not iterable.  A dict
\* yields its keys and a str its characters (both str objects).
iter(x) ==
    CASE x.t = "list" -> Return(x.items)
      [] x.t = "dict" -> Return(keysInSomeOrder(keys(x)))
      [] x.t = "str"  -> Return(IF x.str = "" THEN <<>> ELSE <<Str("c")>>)
      [] OTHER        -> Raise("TypeError")

---------------------------------------------------------------------------
(* The two upstreams.  An answer to the single GET is a network failure or *)
(* timeout, a non-success status, a body that is not JSON, or JSON data.   *)

NetworkError == [kind |-> "network_error"]
HttpError == [kind |-> "http_error"]
BadJson == [kind |-> "bad_json"]
Json(data) == [kind |-> "json", data |-> data]

\* requests.get(...); resp.raise_for_status(); resp.json(): the data, or the
\* RequestException raised (ConnectionError/Timeout, HTTPError, and
\* requests.JSONDecodeError, a RequestException since requests 2.27).
requests_get_json(answer) ==
    IF answer.kind = "json" THEN Return(answer.data)
    ELSE Raise("RequestException")

Request(to, answer) == [to |-> to, answer |-> answer]

\* An effectful call's result: its outcome and the requests it issued.
Result(out, reqs) == [out |-> out, reqs |-> reqs]

---------------------------------------------------------------------------
(* nes_service.geocode_address *)

Coordinates(lat, lng) == [t |-> "Coordinates", lat |-> lat, lng |-> lng]

\* The try block's body (lines 65-77) on the parsed data.
geocode_body(data) ==
    LET result == get(data, "result", EmptyDict)
    IN  IF result.kind = "raise" THEN result ELSE
        LET matches == get(result.value, "addressMatches", List(<<>>))
        IN  IF matches.kind = "raise" THEN matches ELSE
            IF ~Truthy(matches.value) THEN Return(None) ELSE
            LET first == index0(matches.value)
            IN  IF first.kind = "raise" THEN first ELSE
                LET coords == get(first.value, "coordinates", EmptyDict)
                IN  IF coords.kind = "raise" THEN coords ELSE
                    LET y == get(coords.value, "y", None)
                        x == get(coords.value, "x", None)
                    IN  IF y.kind = "raise" THEN y ELSE
                        Return(Coordinates(y.value, x.value))

\* except (requests.RequestException, KeyError, IndexError): return None
GeocodeCaught == {"RequestException", "KeyError", "IndexError"}

geocode_address(address, geo) ==
    LET data == requests_get_json(geo)
        body == IF data.kind = "raise" THEN data ELSE geocode_body(data.value)
        out == IF body.kind = "raise" /\ body.exc \in GeocodeCaught
               THEN Return(None) ELSE body
    IN  Result(out, <<Request("geocoder", geo)>>)

---------------------------------------------------------------------------
(* nes_service.OutageEvent and fetch_nes_events *)

\* OutageEvent(...) from one feed record (lines 111-122); AttributeError
\* when the record is not an object.
OutageEvent(item) ==
    IF item.t # "dict" THEN Raise("AttributeError")
    ELSE Return(
        [ id                |-> get(item, "id", None).value,
          identifier        |-> get(item, "identifier", None).value,
          title             |-> get(item, "title", Str("")).value,
          status            |-> get(item, "status", Str("")).value,
          cause             |-> get(item, "cause", None).value,
          num_people        |-> get(item, "numPeople", Num(0)).value,
          start_time        |-> get(item, "startTime", Num(0)).value,
          last_updated_time |-> get(item, "lastUpdatedTime", Num(0)).value,
          latitude          |-> get(item, "latitude", Num(0)).value,
          longitude         |-> get(item, "longitude", Num(0)).value,
          distance_miles    |-> None ])

\* OutageEvent.to_dict
to_dict(e) == Dict(DOMAIN e, e)

RECURSIVE to_dicts(_)
\* [e.to_dict() for e in events]
to_dicts(es) ==
    IF es = <<>> THEN <<>> ELSE <<to_dict(Head(es))>> \o to_dicts(Tail(es))

RECURSIVE fetch_loop(_, _)
\* events.append(made), then the rest of the loop; the exception ends it.
fetch_append(rest, made, evs) ==
    IF made.kind = "raise" THEN made
    ELSE fetch_loop(rest, Append(evs, made.value))

\* The loop of lines 110-122 over the records left, evs being the events
\* made so far; line 123 at its end.
fetch_loop(items, evs) ==
    IF items = <<>> THEN Return(List(evs))
    ELSE fetch_append(Tail(items), OutageEvent(Head(items)), evs)

\* Line 110: iterating the data.
fetch_iterate(items) ==
    IF items.kind = "raise" THEN items ELSE fetch_loop(items.value, <<>>)

\* The try block's body (lines 109-123) on the parsed data.
fetch_body(data) == fetch_iterate(iter(data))

\* except requests.RequestException: return []
fetch_nes_events(feed) ==
    LET data == requests_get_json(feed)
        body == IF data.kind = "raise" THEN data ELSE fetch_body(data.value)
        out == IF body.kind = "raise" /\ body.exc = "RequestException"
               THEN Return(List(<<>>)) ELSE body
    IN  Result(out, <<Request("feed", feed)>>)

---------------------------------------------------------------------------
(* nes_service.find_nearest_events *)

\* float('inf'): above every distance the fixed-point haversine returns.
Inf == 2000000000

\* key=lambda e: e.distance_miles or float('inf')
sort_key(e) == IF Truthy(e.distance_miles) THEN e.distance_miles.v ELSE Inf

\* e placed after every element of s whose key is not larger.
insert_sorted(s, e) ==
    LET p == Cardinality({i \in 1..Len(s) : sort_key(s[i]) <= sort_key(e)})
    IN  SubSeq(s, 1, p) \o <<e>> \o SubSeq(s, p + 1, Len(s))

RECURSIVE sorted(_)
\* sorted(events, key=...): Python's sort is stable.
sorted(s) ==
    IF s = <<>> THEN <<>>
    ELSE insert_sorted(sorted(SubSeq(s, 1, Len(s) - 1)), s[Len(s)])

Min(a, b) == IF a < b THEN a ELSE b
Max(a, b) == IF a > b THEN a ELSE b

\* s[:limit]: a negative limit counts from the end.
slice_to(s, limit) ==
    IF limit >= 0 THEN SubSeq(s, 1, Min(limit, Len(s)))
    ELSE SubSeq(s, 1, Max(Len(s) + limit, 0))

RECURSIVE annotate_from(_, _, _)
\* event.distance_miles = d for the i-th object of the list, then the rest
\* of the loop; the exception ends the loop.
annotate_step(coords, events, i, d) ==
    IF d.kind = "raise" THEN [events |-> events, out |-> d]
    ELSE annotate_from(coords,
                       [events EXCEPT ![i].distance_miles = d.value], i + 1)

\* The loop of lines 147-151 from the i-th object on, in place: the list's
\* objects after the loop, and the exception that ended it if one did (the
\* events before that one keep their new distance).
annotate_from(coords, events, i) ==
    IF i > Len(events) THEN [events |-> events, out |-> Return(None)]
    ELSE annotate_step(coords, events, i,
                       haversine_miles(coords.lat, coords.lng,
                                       events[i].latitude, events[i].longitude))

annotate(coords, events) == annotate_from(coords, events, 1)

\* Lines 153-154 on the annotated list.
rank_annotated(ann, limit, reqs) ==
    [ out |-> IF ann.out.kind = "raise" THEN ann.out
              ELSE Return(List(slice_to(sorted(ann.events), limit))),
      reqs |-> reqs,
      events |-> ann.events ]

\* Lines 147-154 on the list fetched or supplied.
rank_fetched(fetched, coords, limit) ==
    IF fetched.out.kind = "raise"
    THEN [out |-> fetched.out, reqs |-> fetched.reqs, events |-> <<>>]
    ELSE rank_annotated(annotate(coords, fetched.out.value.items), limit, fetched.reqs)

\* events: None (live mode) or List(objects) (caller-supplied).  The result
\* also carries the objects of the list as the call leaves them.
find_nearest_events(coords, limit, events, feed) ==
    rank_fetched(IF events = None THEN fetch_nes_events(feed)
                 ELSE Result(Return(events), <<>>),
                 coords, limit)

---------------------------------------------------------------------------
(* nes_service.find_nearest_by_address *)

GeocodeError == "Could not geocode address"

\* Lines 172-176: the success object.
nearest_result(address, coords, n, reqs) ==
    IF n.out.kind = "raise" THEN Result(n.out, reqs \o n.reqs)
    ELSE Result(Return(Dict({"query_address", "coordinates", "events"},
            [query_address |-> Str(address),
             coordinates |-> Dict({"lat", "lng"},
                                  [lat |-> coords.lat, lng |-> coords.lng]),
             events |-> List(to_dicts(n.out.value.items))])),
            reqs \o n.reqs)

\* Lines 164-168: the error object.
geocode_failed(address, reqs) ==
    Result(Return(Dict({"error", "query_address"},
                       [error |-> Str(GeocodeError),
                        query_address |-> Str(address)])),
           reqs)

\* The feed fetched before the geocoding result is looked at.
after_geocode_fetch_first(address, limit, g, feed) ==
    IF g.out.kind = "raise" THEN Result(g.out, g.reqs) ELSE
    IF g.out.value = None
    THEN geocode_failed(address, g.reqs \o fetch_nes_events(feed).reqs)
    ELSE nearest_result(address, g.out.value,
                        find_nearest_events(g.out.value, limit, None, feed),
                        g.reqs)

\* Lines 164-176, g being what geocode_address did.
after_geocode(address, limit, g, feed) ==
    IF g.out.kind = "raise" THEN Result(g.out, g.reqs) ELSE
    IF g.out.value = None
    THEN geocode_failed(address, g.reqs)
    ELSE nearest_result(address, g.out.value,
                        find_nearest_events(g.out.value, limit, None, feed),
                        g.reqs)

find_nearest_by_address(address, limit, geo, feed) ==
    after_geocode(address, limit, geocode_address(address, geo), feed)

---------------------------------------------------------------------------
(* server.py: the Flask routes *)

\* A query parameter's text, as its characters.
Chars(cs) == [t |-> "chars", cs |-> cs]

DigitChars == <<"0", "1", "2", "3", "4", "5", "6", "7", "8", "9">>
IsDigit(ch) == \E i \in 1..10 : DigitChars[i] = ch
DigitValue(ch) == (CHOOSE i \in 1..10 : DigitChars[i] = ch) - 1

RECURSIVE strip(_)
\* str.strip(), which int() applies to its argument.
strip(cs) ==
    IF cs # <<>> /\ Head(cs) = " " THEN strip(Tail(cs))
    ELSE IF cs # <<>> /\ cs[Len(cs)] = " " THEN strip(SubSeq(cs, 1, Len(cs) - 1))
    ELSE cs

RECURSIVE digitsValue(_)
digitsValue(ds) ==
    IF ds = <<>> THEN 0
    ELSE 10 * digitsValue(SubSeq(ds, 1, Len(ds) - 1)) + DigitValue(ds[Len(ds)])

\* int(x): x itself when it is an int (the default 5); for text, optional
\* blanks, an optional sign and at least one decimal digit, else ValueError.
int(x) ==
    IF x.t = "num" THEN Return(x.v) ELSE
    LET s == strip(x.cs)
        signed == s # <<>> /\ Head(s) \in {"+", "-"}
        ds == IF signed THEN Tail(s) ELSE s
    IN  IF ds = <<>> \/ \E i \in 1..Len(ds) : ~IsDigit(ds[i])
        THEN Raise("ValueError")
        ELSE Return(IF signed /\ Head(s) = "-" THEN -digitsValue(ds)
                    ELSE digitsValue(ds))

Response(status, body) == [kind |-> "response", status |-> status, body |-> body]

ErrorBody(msg) == Dict({"error"}, [error |-> Str(msg)])

\* Flask answers 500 when a view function raises.
InternalServerError == Response(500, ErrorBody("Internal Server Error"))

\* @app.route("/health")
health == Result(Response(200, Dict({"status"}, [status |-> Str("ok")])), <<>>)

\* Lines 29-32 on what fetch_nes_events did.
events_view(r) ==
    IF r.out.kind = "raise" THEN Result(InternalServerError, r.reqs)
    ELSE Result(Response(200, Dict({"count", "events"},
                   [count |-> Num(Len(r.out.value.items)),
                    events |-> List(to_dicts(r.out.value.items))])),
                r.reqs)

\* @app.route("/events")
events(feed) == events_view(fetch_nes_events(feed))

\* "not address": the parameter is absent (None) or empty.
NoAddress(address) == address = None \/ address.str = ""

\* Lines 55-58 on what find_nearest_by_address did.
nearest_view(r) ==
    IF r.out.kind = "raise" THEN Result(InternalServerError, r.reqs)
    ELSE IF "error" \in keys(r.out.value)
         THEN Result(Response(404, r.out.value), r.reqs)
         ELSE Result(Response(200, r.out.value), r.reqs)

\* Lines 50-58 on what int() did.
nearest_limit(args, limit, geo, feed) ==
    IF limit.kind = "raise"
    THEN Result(Response(400, ErrorBody("Invalid 'limit' parameter")), <<>>)
    ELSE nearest_view(find_nearest_by_address(args.address.str, limit.value, geo, feed))

\* @app.route("/nearest"); args.address is None or Str, args.limit is None
\* or Chars.
nearest(args, geo, feed) ==
    IF NoAddress(args.address)
    THEN Result(Response(400, ErrorBody("Missing required 'address' parameter")), <<>>)
    ELSE nearest_limit(args, int(IF args.limit = None THEN Num(5) ELSE args.limit),
                       geo, feed)

\* Lines 74-80 on what geocode_address did.
geocode_view(args, r) ==
    IF r.out.kind = "raise" THEN Result(InternalServerError, r.reqs)
    ELSE IF r.out.value = None
         THEN Result(Response(404, ErrorBody(GeocodeError)), r.reqs)
         ELSE Result(Response(200, Dict({"address", "coordinates"},
                        [address |-> args.address,
                         coordinates |-> Dict({"lat", "lng"},
                                              [lat |-> r.out.value.lat,
                                               lng |-> r.out.value.lng])])),
                     r.reqs)

\* @app.route("/geocode")
geocode(args, geo) ==
    IF NoAddress(args.address)
    THEN Result(Response(400, ErrorBody("Missing required 'address' parameter")), <<>>)
    ELSE geocode_view(args, geocode_address(args.address.str, geo))

---------------------------------------------------------------------------
(* Inputs *)

GridDegrees == { 10 * k : k \in (-MaxGridK)..MaxGridK }

RECURSIVE SeqsUpTo(_, _)
\* The sequences over S of length at most n.
SeqsUpTo(S, n) ==
    IF n = 0 THEN {<<>>}
    ELSE LET shorter == SeqsUpTo(S, n - 1)
         IN  shorter \cup {Append(s, x) : s \in {t \in shorter : Len(t) = n - 1}, x \in S}

Addresses == {"123 Main St, Nashville, TN", "nowhere"}

\* <<latitude, longitude>> of the places events and reference points are at.
Places == {<<0, 0>>, <<0, 10>>, <<0, 20>>}

\* Reference coordinates a library caller passes.
RefCoordinates == {Coordinates(Num(p[1]), Num(p[2])) : p \in Places}

\* And what geocode_address returns for a match that carries no coordinates.
LiveCoordinates == RefCoordinates \cup {Coordinates(None, None)}

\* An OutageEvent as a caller constructs it: distance_miles unset.
NewEvent(id, place) ==
    [ id |-> Num(id), identifier |-> Str("E"), title |-> Str("Outage"),
      status |-> Str("Active"), cause |-> None, num_people |-> Num(1),
      start_time |-> Num(0), last_updated_time |-> Num(0),
      latitude |-> Num(place[1]), longitude |-> Num(place[2]),
      distance_miles |-> None ]

\* The lists a caller builds: ids 1..n in list order.
CallerLists ==
    { [i \in 1..Len(ps) |-> NewEvent(i, ps[i])] : ps \in SeqsUpTo(Places, MaxEvents) }

FeedKeys == {"id", "identifier", "title", "status", "cause", "numPeople",
             "startTime", "lastUpdatedTime", "latitude", "longitude"}

\* A complete feed record.
FeedRecord(id, lat, lng) ==
    Dict(FeedKeys,
         [ id |-> Num(id), identifier |-> Str("E"), title |-> Str("Outage"),
           status |-> Str("Active"), cause |-> None, numPeople |-> Num(1),
           startTime |-> Num(0), lastUpdatedTime |-> Num(0),
           latitude |-> lat, longitude |-> lng ])

\* Records of a feed answer: two complete ones, one with only an id, one
\* with a null latitude, and one that is not an object.
FeedItems ==
    { FeedRecord(1, Num(0), Num(10)),
      FeedRecord(2, Num(0), Num(20)),
      Dict({"id"}, [id |-> Num(3)]),
      FeedRecord(4, None, Num(10)),
      Num(7) }

FeedData ==
    {None, Num(1), Str("maintenance"), EmptyDict,
     Dict({"error"}, [error |-> Str("unavailable")])}
    \cup {List(s) : s \in SeqsUpTo(FeedItems, MaxFeed)}

FeedAnswers == {NetworkError, HttpError, BadJson} \cup {Json(d) : d \in FeedData}

Match(lat, lng) ==
    Dict({"coordinates"},
         [coordinates |-> Dict({"x", "y"}, [x |-> Num(lng), y |-> Num(lat)])])

GeoResult(matches) ==
    Dict({"result"}, [result |-> Dict({"addressMatches"}, [addressMatches |-> matches])])

GeoData ==
    { None, List(<<>>), EmptyDict,
      Dict({"result"}, [result |-> None]),
      Dict({"result"}, [result |-> EmptyDict]),
      Dict({"result"}, [result |-> List(<<>>)]),
      GeoResult(List(<<>>)),
      GeoResult(None),
      GeoResult(Dict({"first"}, [first |-> Match(0, 0)])),
      GeoResult(List(<<None>>)),
      GeoResult(List(<<EmptyDict>>)),
      GeoResult(List(<<Dict({"coordinates"}, [coordinates |-> None])>>)),
      GeoResult(List(<<Dict({"coordinates"},
                            [coordinates |-> Dict({"x"}, [x |-> Num(10)])])>>)),
      GeoResult(List(<<Match(0, 0)>>)),
      GeoResult(List(<<Match(0, 10), Match(0, 20)>>)) }

GeoAnswers == {NetworkError, HttpError, BadJson} \cup {Json(d) : d \in GeoData}

\* limit as a library caller passes it.
Limits == (-1)..(MaxFeed + 1)
SuppliedLimits == (-2)..(MaxEvents + 1)

\* The limit query parameter: absent, or its text.
LimitParams ==
    {None} \cup
    {Chars(cs) : cs \in {<<"0">>, <<"1">>, <<"2">>, <<"-", "1">>, <<" ", "2", " ">>,
                         <<>>, <<"a", "b", "c">>, <<"1", ".", "5">>, <<"-">>}}

\* The address query parameter: absent, empty, or an address.
AddressParams == {None, Str(""), Str("123 Main St, Nashville, TN")}

---------------------------------------------------------------------------
(* Actions.  The service is synchronous: a call is answered before the     *)
(* next one is made (Respond).  A library caller that builds a list of     *)
(* events may rank it any number of times before it is done with it.       *)

NoCall == [op |-> "none"]
Idle == call = NoCall

\* The call c was made and did r; the caller's list is untouched.
Answered(c, r) ==
    /\ call' = c
    /\ outcome' = r.out
    /\ outbound' = r.reqs
    /\ UNCHANGED caller_events

\* The call c on the caller's list did r.
AnsweredOnList(c, r) ==
    /\ call' = c
    /\ outcome' = r.out
    /\ outbound' = r.reqs
    /\ caller_events' = r.events

Init ==
    /\ call = NoCall
    /\ outcome = Return(None)
    /\ outbound = <<>>
    /\ caller_events = <<>>

\* A direct call of haversine_miles.
Haversine ==
    /\ Idle
    /\ \E lat1 \in GridDegrees, lng1 \in GridDegrees,
          lat2 \in GridDegrees, lng2 \in GridDegrees :
        /\ call' = [op |-> "haversine_miles",
                    lat1 |-> lat1, lng1 |-> lng1, lat2 |-> lat2, lng2 |-> lng2]
        /\ outcome' = haversine_miles(Num(lat1), Num(lng1), Num(lat2), Num(lng2))
        /\ outbound' = <<>>
        /\ UNCHANGED caller_events

\* A direct call of geocode_address.
GeocodeAddress ==
    /\ Idle
    /\ \E address \in Addresses, geo \in GeoAnswers :
        Answered([op |-> "geocode_address", address |-> address],
                 geocode_address(address, geo))

\* A direct call of fetch_nes_events.
FetchNesEvents ==
    /\ Idle
    /\ \E feed \in FeedAnswers :
        Answered([op |-> "fetch_nes_events"], fetch_nes_events(feed))

\* A library caller constructs a list of OutageEvent objects.
BuildEvents ==
    /\ Idle
    /\ \E es \in CallerLists :
        /\ call' = [op |-> "OutageEvent"]
        /\ outcome' = Return(List(es))
        /\ outbound' = <<>>
        /\ caller_events' = es

\* find_nearest_events(coords, limit, events) on the caller's list.
FindNearestEventsSupplied ==
    /\ \/ call.op = "OutageEvent"
       \/ call.op = "find_nearest_events" /\ call.events # None
    /\ \E coords \in RefCoordinates, limit \in SuppliedLimits :
        AnsweredOnList([op |-> "find_nearest_events", coords |-> coords,
                        limit |-> limit, events |-> List(caller_events)],
                       find_nearest_events(coords, limit, List(caller_events),
                                           NetworkError))

\* find_nearest_events(coords, limit): live mode.
FindNearestEventsLive ==
    /\ Idle
    /\ \E coords \in LiveCoordinates, limit \in Limits, feed \in FeedAnswers :
        Answered([op |-> "find_nearest_events", coords |-> coords,
                  limit |-> limit, events |-> None],
                 find_nearest_events(coords, limit, None, feed))

\* A direct call of find_nearest_by_address (the CLI makes it with limit 5).
FindNearestByAddress ==
    /\ Idle
    /\ \E address \in Addresses, limit \in Limits \cup {5},
          geo \in GeoAnswers, feed \in FeedAnswers :
        Answered([op |-> "find_nearest_by_address", address |-> address,
                  limit |-> limit],
                 find_nearest_by_address(address, limit, geo, feed))

\* GET /health
Health ==
    /\ Idle
    /\ Answered([op |-> "GET /health"], health)

\* GET /events
Events ==
    /\ Idle
    /\ \E feed \in FeedAnswers :
        Answered([op |-> "GET /events"], events(feed))

\* GET /nearest
Nearest ==
    /\ Idle
    /\ \E address \in AddressParams, limit \in LimitParams,
          geo \in GeoAnswers, feed \in FeedAnswers :
        Answered([op |-> "GET /nearest",
                  args |-> [address |-> address, limit |-> limit]],
                 nearest([address |-> address, limit |-> limit], geo, feed))

\* GET /geocode
Geocode ==
    /\ Idle
    /\ \E address \in AddressParams, geo \in GeoAnswers :
        Answered([op |-> "GET /geocode", args |-> [address |-> address]],
                 geocode([address |-> address], geo))

\* The call is over: its result is with the caller, nothing is kept.
Respond ==
    /\ ~Idle
    /\ call' = NoCall
    /\ outcome' = Return(None)
    /\ outbound' = <<>>
    /\ caller_events' = <<>>

Next ==
    \/ Haversine
    \/ GeocodeAddress
    \/ FetchNesEvents
    \/ BuildEvents
    \/ FindNearestEventsSupplied
    \/ FindNearestEventsLive
    \/ FindNearestByAddress
    \/ Health
    \/ Events
    \/ Nearest
    \/ Geocode
    \/ Respond

Spec == Init /\ [][Next]_vars

---------------------------------------------------------------------------
(* Properties *)

\* What the state records of the call.
RankedSupplied == call.op = "find_nearest_events" /\ call.events # None
Distance(e) == e.distance_miles.v

\* The geocoder's and the feed's answer in the call, when it asked.
GeoAsked == \E i \in 1..Len(outbound) : outbound[i].to = "geocoder"
FeedAsked == \E i \in 1..Len(outbound) : outbound[i].to = "feed"
GeoAnswer == outbound[CHOOSE i \in 1..Len(outbound) : outbound[i].to = "geocoder"].answer
FeedAnswer == outbound[CHOOSE i \in 1..Len(outbound) : outbound[i].to = "feed"].answer

\* C1: find_nearest_events returns its events in ascending distance_miles,
\* ties in input order, an event at distance exactly 0 included.  Stated on
\* the caller-supplied lists, whose ids are the input positions: of two
\* returned events, the earlier one is strictly nearer, or as near and
\* earlier in the input.
C1_RankedAscendingStable ==
    (RankedSupplied /\ call.limit >= 0 /\ outcome.kind = "return") =>
        \A i, j \in 1..Len(outcome.value.items) :
            i < j =>
                \/ Distance(outcome.value.items[i]) < Distance(outcome.value.items[j])
                \/ /\ Distance(outcome.value.items[i]) = Distance(outcome.value.items[j])
                   /\ outcome.value.items[i].id.v < outcome.value.items[j].id.v

\* The events the feed held and the coordinates the address resolved to, in
\* a find_nearest_by_address call that got both, all with numbers for
\* latitude and longitude.
QueryResolved ==
    /\ call.op = "find_nearest_by_address"
    /\ GeoAsked /\ FeedAsked
    /\ geocode_address(call.address, GeoAnswer).out.kind = "return"
    /\ geocode_address(call.address, GeoAnswer).out.value # None
    /\ IsNum(geocode_address(call.address, GeoAnswer).out.value.lat)
    /\ IsNum(geocode_address(call.address, GeoAnswer).out.value.lng)
    /\ fetch_nes_events(FeedAnswer).out.kind = "return"
    /\ \A i \in 1..Len(fetch_nes_events(FeedAnswer).out.value.items) :
          /\ IsNum(fetch_nes_events(FeedAnswer).out.value.items[i].latitude)
          /\ IsNum(fetch_nes_events(FeedAnswer).out.value.items[i].longitude)

\* The distances of the available events from the resolved coordinates.
AvailableDistances ==
    [i \in 1..Len(fetch_nes_events(FeedAnswer).out.value.items) |->
        haversine_miles(geocode_address(call.address, GeoAnswer).out.value.lat,
                        geocode_address(call.address, GeoAnswer).out.value.lng,
                        fetch_nes_events(FeedAnswer).out.value.items[i].latitude,
                        fetch_nes_events(FeedAnswer).out.value.items[i].longitude).value.v]

\* The distance_miles of the events in the success object returned.
ReturnedDistances ==
    [j \in 1..Len(at(outcome.value, "events").items) |->
        at(at(outcome.value, "events").items[j], "distance_miles").v]

\* C2: for a geocodable address and 0 <= k <= the number of available
\* events, the nearest query returns exactly k events, the k nearest: every
\* available event strictly nearer than a returned one is returned too.
C2_ReturnsTheKNearest ==
    (QueryResolved /\ 0 <= call.limit /\ call.limit <= Len(AvailableDistances)) =>
        /\ outcome.kind = "return"
        /\ "events" \in keys(outcome.value)
        /\ Len(ReturnedDistances) = call.limit
        /\ \A j \in 1..Len(ReturnedDistances) :
              Cardinality({i \in 1..Len(AvailableDistances) :
                              AvailableDistances[i] < ReturnedDistances[j]})
              = Cardinality({i \in 1..Len(ReturnedDistances) :
                                ReturnedDistances[i] < ReturnedDistances[j]})

\* C3: with a limit <= 0, zero or negative, find_nearest_events returns the
\* empty sequence, whatever the events.
C3_NonPositiveLimitGivesNothing ==
    (call.op = "find_nearest_events" /\ call.limit <= 0 /\ outcome.kind = "return") =>
        outcome.value = List(<<>>)

\* The failing outcomes of the geocoder request: no answer, a non-success
\* status, a body that is not JSON, JSON that is not an object or whose
\* result is null or not an object, an empty addressMatches list.
GeocoderFailed(answer) ==
    \/ answer.kind # "json"
    \/ answer.data.t # "dict"
    \/ /\ "result" \in keys(answer.data)
       /\ \/ at(answer.data, "result").t # "dict"
          \/ /\ "addressMatches" \in keys(at(answer.data, "result"))
             /\ at(at(answer.data, "result"), "addressMatches") = List(<<>>)

\* C4: geocode_address returns None, and raises nothing, for every failing
\* outcome of its request.
C4_GeocodeFailureIsNone ==
    (call.op = "geocode_address" /\ GeocoderFailed(GeoAnswer)) =>
        outcome = Return(None)

\* The failing outcomes of the feed request: no answer, a non-success
\* status, a body that is not JSON, JSON that is not a list of objects.
FeedFailed(answer) ==
    \/ answer.kind # "json"
    \/ answer.data.t # "list"
    \/ \E i \in 1..Len(answer.data.items) : answer.data.items[i].t # "dict"

\* C5: fetch_nes_events raises nothing, and returns the empty sequence for
\* every failing outcome of its request; /events then answers 200 with
\* count 0 and no events.
C5_FetchFailureIsEmpty ==
    /\ call.op = "fetch_nes_events" =>
          /\ outcome.kind = "return"
          /\ FeedFailed(FeedAnswer) => outcome.value = List(<<>>)
    /\ (call.op = "GET /events" /\ FeedFailed(FeedAnswer)) =>
          outcome = Response(200, Dict({"count", "events"},
                                       [count |-> Num(0), events |-> List(<<>>)]))

\* C6: find_nearest_by_address raises nothing: whatever the geocoder and
\* the feed answer, it returns the success object or the error object.
C6_ByAddressNeverRaises ==
    call.op = "find_nearest_by_address" =>
        /\ outcome.kind = "return"
        /\ outcome.value.t = "dict"
        /\ keys(outcome.value) \in {{"query_address", "coordinates", "events"},
                                   {"error", "query_address"}}

\* Geocoding yielded not-found in the call.
GeocodeNotFound ==
    /\ call.op = "find_nearest_by_address"
    /\ GeoAsked
    /\ geocode_address(call.address, GeoAnswer).out = Return(None)

\* C7: when geocoding yields not-found, find_nearest_by_address returns
\* exactly {error: "Could not geocode address", query_address: <input>},
\* with no coordinates and no events, and has not asked the feed.
C7_NotFoundIsErrorOnlyNoFeed ==
    GeocodeNotFound =>
        /\ outcome.kind = "return"
        /\ outcome.value.t = "dict"
        /\ keys(outcome.value) = {"error", "query_address"}
        /\ at(outcome.value, "error") = Str("Could not geocode address")
        /\ at(outcome.value, "query_address") = Str(call.address)
        /\ ~FeedAsked

\* C7 happens: a match-less answer of the geocoder, and the error object
\* returned for the address asked.
C7_Witness ==
    /\ GeocodeNotFound
    /\ GeoAnswer = Json(GeoResult(List(<<>>)))
    /\ call.address = "nowhere"
    /\ outcome.kind = "return"
    /\ at(outcome.value, "query_address") = Str("nowhere")
    /\ Len(outbound) = 1

\* The /nearest request is invalid: no address, or a limit that is given
\* and is not an integer.
NearestInvalid ==
    \/ NoAddress(call.args.address)
    \/ call.args.limit # None /\ int(call.args.limit).kind = "raise"

\* C8: the status of /nearest is 400 for an invalid request, decided before
\* any outbound request; 404 for a valid one whose address cannot be
\* geocoded; 200 otherwise.
C8_NearestStatus ==
    call.op = "GET /nearest" =>
        /\ NearestInvalid => (outcome.status = 400 /\ outbound = <<>>)
        /\ ~NearestInvalid =>
              LET g == geocode_address(call.args.address.str, GeoAnswer).out
              IN  IF g.kind = "return" /\ g.value # None
                  THEN outcome.status = 200
                  ELSE outcome.status = 404

\* C9: haversine_miles is symmetric: the distance from A to B is the
\* distance from B to A.
C9_HaversineSymmetric ==
    call.op = "haversine_miles" =>
        outcome = haversine_miles(Num(call.lat2), Num(call.lng2),
                                  Num(call.lat1), Num(call.lng1))

\* C9 happens: two points that differ in latitude and in longitude, at a
\* distance that is not 0.
C9_Witness ==
    /\ call.op = "haversine_miles"
    /\ call.lat1 # call.lat2 /\ call.lng1 # call.lng2
    /\ call.lat1 # -call.lat2
    /\ outcome.kind = "return"
    /\ outcome.value.v > 0

\* C10: find_nearest_events on a caller-supplied list annotates copies: the
\* objects of the caller's list are after the call what they were before
\* it, distance_miles included.
C10_SuppliedListUnchanged ==
    RankedSupplied => caller_events = call.events.items

---------------------------------------------------------------------------
(* Sanity of the fixed-point distance on the grid (not a claim): zero only *)
(* between identical points.                                               *)
DistanceZeroOnlyAtSamePoint ==
    call.op = "haversine_miles" =>
        /\ outcome.kind = "return"
        /\ (outcome.value.v = 0) <=> (call.lat1 = call.lat2 /\ call.lng1 = call.lng2)

=============================================================================
